---------------------------- MODULE Spec2Model ----------------------------
(***************************************************************************)
(* A model of turm's data-acquisition core: Job::id, Job::from_parts and   *)
(* Job::resolve_path (src/src/job.rs) and the JobWatcher poll loop         *)
(* (src/src/job_watcher.rs).                                               *)
(*                                                                         *)
(* Rust strings are modelled as sequences of one-character strings, so     *)
(* that splitting, trimming, regex scanning and range replacement are      *)
(* computed character by character as the code computes them.  Field names *)
(* (the keys of the HashMap) stay atomic strings: the code only compares   *)
(* them for equality.                                                      *)
(***************************************************************************)
EXTENDS Naturals, Sequences, FiniteSets

VARIABLES
    \* --- JobWatcher (job_watcher.rs) ---
    pc,          \* position of the worker thread in JobWatcher::run
    polls,       \* number of squeue invocations made so far
    output,      \* the stdout lines of the current cycle's invocation
    jobs,        \* the Vec<Job> collected in the current cycle
    chan,        \* messages in the crossbeam channel, oldest first
    cap,         \* capacity of the channel
    connected,   \* whether the Receiver is still alive
    published,   \* number of messages the Sender has put in the channel
    invokedOk,   \* number of invocations whose output was read successfully
    failures,    \* number of failed invocations / failed sends observed
    \* --- Job::resolve_path applied to an input (job.rs) ---
    rIn,         \* [template, ctx]
    rOut,        \* results of the first and of the repeated resolution
    rStage,      \* 0: nothing resolved, 1: resolved once, 2: resolved twice
    \* --- Job::from_parts applied to inputs (job.rs) ---
    pIn,         \* [fields, sep, lineA, lineB]
    pOut,        \* results of parsing lineA and lineB
    pStage       \* 0: nothing parsed, 1: lineA parsed, 2: both parsed

vars == <<pc, polls, output, jobs, chan, cap, connected, published, invokedOk,
          failures, rIn, rOut, rStage, pIn, pOut, pStage>>

watcherVars == <<pc, polls, output, jobs, chan, cap, connected, published,
                 invokedOk, failures>>
resolveVars == <<rIn, rOut, rStage>>
parseVars == <<pIn, pOut, pStage>>

----------------------------------------------------------------------------
(* Bounds *)

MaxPolls == 2       \* squeue invocations per behaviour
MaxLines == 2       \* stdout lines per invocation
MaxCap == 1         \* largest channel capacity tried
MaxTplToks == 2     \* tokens per template handed to resolve_path
MaxExtraPieces == 1 \* pieces added to or cut from a line handed to from_parts

----------------------------------------------------------------------------
(* Strings *)

Min(S) == CHOOSE x \in S : \A y \in S : x <= y
Max(S) == CHOOSE x \in S : \A y \in S : x >= y

RECURSIVE Concat(_)
Concat(ss) == IF ss = <<>> THEN <<>> ELSE Head(ss) \o Concat(Tail(ss))

\* s[i..] starts with p
MatchAt(s, i, p) ==
    /\ i + Len(p) - 1 <= Len(s)
    /\ \A k \in 1..Len(p) : s[i + k - 1] = p[k]

\* str::split(pat) for a non-empty pattern: cut at the leftmost
\* non-overlapping occurrences; `start` is where the current piece began.
RECURSIVE SplitFrom(_, _, _, _)
SplitFrom(s, sep, i, start) ==
    IF i + Len(sep) - 1 > Len(s)
    THEN <<SubSeq(s, start, Len(s))>>
    ELSE IF MatchAt(s, i, sep)
         THEN <<SubSeq(s, start, i - 1)>>
              \o SplitFrom(s, sep, i + Len(sep), i + Len(sep))
         ELSE SplitFrom(s, sep, i + 1, start)

\* str::split: an empty pattern matches at every character boundary, which
\* yields an empty piece, each character, and an empty piece.
split(s, sep) ==
    IF sep = <<>>
    THEN <<<<>>>> \o [i \in 1..Len(s) |-> <<s[i]>>] \o <<<<>>>>
    ELSE SplitFrom(s, sep, 1, 1)

WhiteSpace == {" "}

\* str::trim
trim(s) ==
    LET keep == {i \in 1..Len(s) : s[i] \notin WhiteSpace}
    IN  IF keep = {} THEN <<>> ELSE SubSeq(s, Min(keep), Max(keep))

\* Path::is_absolute (unix)
is_absolute(p) == p # <<>> /\ p[1] = "/"

\* join that keeps the base even when the path is absolute
join_keep_base(base, path) ==
    IF base = <<>> \/ base[Len(base)] = "/" THEN base \o path
    ELSE base \o <<"/">> \o path

\* PathBuf::from(base).join(path), as PathBuf::push does it on unix: an
\* absolute path replaces the base; otherwise a separator is added unless
\* the base is empty or already ends with one.
join(base, path) ==
    IF is_absolute(path) THEN path
    ELSE IF base = <<>> \/ base[Len(base)] = "/" THEN base \o path
    ELSE base \o <<"/">> \o path

\* Option<T>
None == [some |-> FALSE, val |-> <<>>]
Some(v) == [some |-> TRUE, val |-> v]


----------------------------------------------------------------------------
(* Job::resolve_path, job.rs:110-176 *)

slurm_no_val == <<"4", "2", "9", "4", "9", "6", "7", "2", "9", "4">>
NA == <<"N", "/", "A">>
NullPath == <<"(", "n", "u", "l", "l", ")">>
DefaultJ == <<"s", "l", "u", "r", "m", "-", "%", "J", ".", "o", "u", "t">>
DefaultAa ==
    <<"s", "l", "u", "r", "m", "-", "%", "A", "_", "%", "a", ".", "o", "u", "t">>

\* The second characters the regex  %(%|A|a|J|j|N|n|s|t|u|x)  accepts.
EscChars == {"%", "A", "a", "J", "j", "N", "n", "s", "t", "u", "x"}

\* RE.captures_iter(path): the start positions of the leftmost
\* non-overlapping matches, in scan order, searching from position i.
RECURSIVE captures_from(_, _)
captures_from(path, i) ==
    IF i + 1 > Len(path) THEN <<>>
    ELSE IF path[i] = "%" /\ path[i + 1] \in EscChars
         THEN <<i>> \o captures_from(path, i + 2)
         ELSE captures_from(path, i + 1)

captures_iter(path) == captures_from(path, 1)

\* The match arms of job.rs:157-170, keyed by the character after '%'.
replacement(c, fv) ==
    LET array_master == fv["ArrayJobID"]
        array_id == IF fv["ArrayTaskID"] = NA THEN slurm_no_val
                    ELSE fv["ArrayTaskID"]
        host == fv["NodeList"]
    IN  CASE c = "%" -> <<"%">>
          [] c = "A" -> array_master
          [] c = "a" -> array_id
          [] c = "J" -> fv["jobid"]
          [] c = "j" -> fv["jobid"]
          [] c = "N" -> Head(split(host, <<",">>))
          [] c = "n" -> <<"0">>
          [] c = "s" -> <<"b", "a", "t", "c", "h">>
          [] c = "t" -> <<"0">>
          [] c = "u" -> fv["username"]
          [] c = "x" -> fv["name"]

\* String::replace_range(m.range(), with) for a two-character match at i.
replace_range(path, i, with) ==
    SubSeq(path, 1, i - 1) \o with \o SubSeq(path, i + 2, Len(path))

\* The loop of job.rs:150-173: the matches were collected on a clone of the
\* path (orig) and are applied to path from the last match to the first.
RECURSIVE replace_rev(_, _, _, _)
replace_rev(path, orig, caps, fv) ==
    IF caps = <<>> THEN path
    ELSE LET i == caps[Len(caps)]
         IN  replace_rev(replace_range(path, i, replacement(orig[i + 1], fv)),
                         orig, SubSeq(caps, 1, Len(caps) - 1), fv)

\* A loop that applies the collected ranges from the first match to the
\* last, without adjusting them for the text already replaced.
RECURSIVE replace_fwd(_, _, _, _)
replace_fwd(path, orig, caps, fv) ==
    IF caps = <<>> THEN path
    ELSE LET i == IF Head(caps) > Len(path) + 1 THEN Len(path) + 1
                  ELSE Head(caps)
         IN  replace_fwd(replace_range(path, i, replacement(orig[Head(caps) + 1], fv)),
                         orig, Tail(caps), fv)

substitute_fwd(path, fv) == replace_fwd(path, path, captures_iter(path), fv)

substitute(path, fv) == replace_rev(path, path, captures_iter(path), fv)

\* job.rs:127-144: the template used when `path` is empty.
default_template(fv) ==
    LET array_id == IF fv["ArrayTaskID"] = NA THEN slurm_no_val
                    ELSE fv["ArrayTaskID"]
    IN  IF array_id = slurm_no_val
        THEN join(fv["WorkDir"], DefaultJ)
        ELSE join(fv["WorkDir"], DefaultAa)

\* resolve_path, returning its result (ret) and the value of its local
\* `path` when it returns (path).
resolve_locals(path0, fv) ==
    LET path1 == IF path0 = <<>> THEN default_template(fv) ELSE path0
    IN  IF path1 = NullPath
        THEN [ret |-> None, path |-> path1]
        ELSE LET path2 == substitute(path1, fv)
             IN  [ret |-> Some(join(fv["WorkDir"], path2)), path |-> path2]

resolve_path(path, fv) == resolve_locals(path, fv).ret

\* The keys resolve_path unwraps, in the order of job.rs:119-125.
ResolveLookups ==
    <<"ArrayJobID", "ArrayTaskID", "jobid", "NodeList", "username", "name",
      "WorkDir">>

----------------------------------------------------------------------------
(* Job::id and Job::from_parts, job.rs:24-107 *)

\* an id that leaves the array step out
id_no_step(job) ==
    IF job.array_step.some THEN job.array_id ELSE job.job_id

\* Job::id, job.rs:24-29
id(job) ==
    IF job.array_step.some
    THEN job.array_id \o <<"_">> \o job.array_step.val
    ELSE job.job_id

\* The HashMap built by job.rs:45-48: zip pairs each field with the piece at
\* the same position, and a later insert of the same key replaces the value.
field_values(flds, parts) ==
    [k \in {flds[i] : i \in 1..Len(flds)} |->
        parts[Max({i \in 1..Len(flds) : flds[i] = k})]]

\* Every HashMap::get of from_parts in program order, job.rs:51-86, with the
\* gets of the two resolve_path calls (job.rs:119-125) where they happen.
\* All but the get of "reason" (job.rs:62) are unwrapped.
LookupTrace ==
    <<"jobid", "ArrayJobID", "ArrayTaskID", "name", "state", "statecompact",
      "reason", "username", "timeused", "tres-alloc", "tres-per-node",
      "partition", "NodeList", "command", "stdout">>
    \o ResolveLookups \o <<"stderr">> \o ResolveLookups

Unwrapped(k) == k # "reason"

NoJob == <<>>

\* an array step that is kept even for the "N/A" sentinel
array_step_kept(array_task_id) == Some(array_task_id)

\* job.rs:54-58
array_step_of(array_task_id) ==
    IF array_task_id = NA THEN None ELSE Some(array_task_id)

\* The Job of job.rs:88-105, built from a table that has every unwrapped key.
build_job(fv) ==
    [job_id |-> fv["jobid"],
     array_id |-> fv["ArrayJobID"],
     array_step |-> array_step_of(fv["ArrayTaskID"]),
     name |-> fv["name"],
     state |-> fv["state"],
     state_compact |-> fv["statecompact"],
     reason |-> IF "reason" \in DOMAIN fv /\ fv["reason"] # <<"N", "o", "n", "e">>
                THEN Some(fv["reason"]) ELSE None,
     user |-> fv["username"],
     time |-> fv["timeused"],
     tres |-> IF fv["tres-per-node"] = NA THEN fv["tres-alloc"]
              ELSE fv["tres-alloc"] \o <<",">> \o fv["tres-per-node"],
     partition |-> fv["partition"],
     nodelist |-> fv["NodeList"],
     command |-> fv["command"],
     stdout |-> resolve_path(fv["stdout"], fv),
     stderr |-> resolve_path(fv["stderr"], fv)]

\* a length check that forgets the trailing empty piece
length_ok_no_trailing(parts, flds) == Len(parts) = Len(flds)

\* job.rs:41: the pieces are one more than the fields
length_ok(parts, flds) == Len(parts) = Len(flds) + 1

\* Job::from_parts.  outcome is "None" (job.rs:42), "panic" (an unwrap of a
\* missing key) or "Some"; lookups counts the HashMap::get calls made.
from_parts(squeue_l, flds, sep) ==
    LET parts == split(squeue_l, sep)
    IN  IF ~length_ok(parts, flds)
        THEN [outcome |-> "None", job |-> NoJob, lookups |-> 0]
        ELSE LET fv == field_values(flds, parts)
                 missing == {i \in 1..Len(LookupTrace) :
                                /\ Unwrapped(LookupTrace[i])
                                /\ LookupTrace[i] \notin DOMAIN fv}
             IN  IF missing # {}
                 THEN [outcome |-> "panic", job |-> NoJob,
                       lookups |-> Min(missing)]
                 ELSE [outcome |-> "Some", job |-> build_job(fv),
                       lookups |-> Len(LookupTrace)]

----------------------------------------------------------------------------
(* JobWatcher::run, job_watcher.rs:27-72 *)

output_separator == <<"#", "#", "#", "t", "u", "r", "m", "#", "#", "#">>

\* a field list whose array task id name has drifted from the parser's
fields_drifted ==
    <<"jobid", "name", "state", "username", "timeused", "tres-alloc",
      "partition", "nodelist", "stdout", "stderr", "command", "statecompact",
      "reason", "ArrayJobID", "arraytaskid", "NodeList", "WorkDir",
      "tres-per-node">>

\* job_watcher.rs:29-48
fields ==
    <<"jobid", "name", "state", "username", "timeused", "tres-alloc",
      "partition", "nodelist", "stdout", "stderr", "command", "statecompact",
      "reason", "ArrayJobID", "ArrayTaskID", "NodeList", "WorkDir",
      "tres-per-node">>

(* Inputs: squeue output *)

\* the value squeue prints for each field of a job
JobValues(jobid, aj, at, out, tpn) ==
    [k \in {fields[i] : i \in 1..Len(fields)} \cup {"arraytaskid"} |->
        CASE k = "jobid" -> jobid
          [] k = "ArrayJobID" -> aj
          [] k \in {"ArrayTaskID", "arraytaskid"} -> at
          [] k = "stdout" -> out
          [] k = "stderr" -> NullPath
          [] k = "tres-per-node" -> tpn
          [] k = "tres-alloc" -> <<"c", "=", "2">>
          [] k = "reason" -> <<"N", "o", "n", "e">>
          [] k \in {"nodelist", "NodeList"} -> <<"n", "1", ",", "n", "2">>
          [] k = "WorkDir" -> <<"/", "w">>
          [] k = "name" -> <<"f", "o", "o">>
          [] k = "username" -> <<"u">>
          [] OTHER -> <<"R">>]

\* one output line: each field's value followed by the separator
MkLine(flds, vm, sep) == Concat([i \in 1..Len(flds) |-> vm[flds[i]] \o sep])

LinePlain ==
    MkLine(fields, JobValues(<<"7">>, <<"7">>, NA, <<"/", "o", "/", "%", "j">>, NA),
           output_separator)
LineArray ==
    <<" ">> \o MkLine(fields, JobValues(<<"8">>, <<"1", "0">>, <<"2">>, <<>>,
                                       <<"g", ":", "1">>), output_separator)
LineShort == <<"7">> \o output_separator \o <<"f", "o", "o">>
LineLong == LinePlain \o output_separator

WatcherLines == {LinePlain, LineArray, LineShort, LineLong}

Outputs == UNION {[1..n -> WatcherLines] : n \in 0..MaxLines}

\* job_watcher.rs:64-66: the line is trimmed and handed to from_parts with
\* the watcher's field list and separator
parse_line(l) == from_parts(trim(l), fields, output_separator)

\* parse_line tabulated over the lines squeue can print here (each line is
\* parsed once instead of once per state)
ParseTable == [l \in WatcherLines |-> parse_line(l)]

\* a collection that puts each new record in front of the earlier ones
RECURSIVE collect_jobs_reversed(_)
collect_jobs_reversed(lines) ==
    IF lines = <<>> THEN <<>>
    ELSE LET r == ParseTable[Head(lines)]
         IN  collect_jobs_reversed(Tail(lines))
             \o (IF r.outcome = "Some" THEN <<r.job>> ELSE <<>>)

\* job_watcher.rs:63-68: trim each line, keep the records from_parts returns
RECURSIVE collect_jobs(_)
collect_jobs(lines) ==
    IF lines = <<>> THEN <<>>
    ELSE LET r == ParseTable[Head(lines)]
         IN  (IF r.outcome = "Some" THEN <<r.job>> ELSE <<>>)
             \o collect_jobs(Tail(lines))

\* whether parsing some line of the output panics
parse_panics(lines) ==
    \E i \in 1..Len(lines) : ParseTable[lines[i]].outcome = "panic"

\* Channel capacities: bounded(k) and unbounded().
Capacities ==
    {[bounded |-> FALSE, n |-> 0]} \cup {[bounded |-> TRUE, n |-> k] : k \in 1..MaxCap}

\* whether a send can complete now
has_room == ~cap.bounded \/ Len(chan) < cap.n

WatcherInit ==
    /\ pc = "idle"
    /\ polls = 0
    /\ output = <<>>
    /\ jobs = <<>>
    /\ chan = <<>>
    /\ cap \in Capacities
    /\ connected = TRUE
    /\ published = 0
    /\ invokedOk = 0
    /\ failures = 0

WatcherIdle ==
    /\ pc = "off"
    /\ polls = 0
    /\ output = <<>>
    /\ jobs = <<>>
    /\ chan = <<>>
    /\ cap = [bounded |-> FALSE, n |-> 0]
    /\ connected = TRUE
    /\ published = 0
    /\ invokedOk = 0
    /\ failures = 0

\* an invocation failure after which the loop sleeps and polls again
PollFailRetry ==
    /\ pc = "idle"
    /\ polls < MaxPolls
    /\ pc' = "sleep"
    /\ polls' = polls + 1
    /\ failures' = failures + 1
    /\ UNCHANGED <<output, jobs, chan, cap, connected, published, invokedOk>>
    /\ UNCHANGED <<resolveVars, parseVars>>

\* job_watcher.rs:54-64: squeue cannot be launched (expect) or a line of its
\* output cannot be read (unwrap): the thread panics.
PollFail ==
    /\ pc = "idle"
    /\ polls < MaxPolls
    /\ pc' = "dead"
    /\ polls' = polls + 1
    /\ failures' = failures + 1
    /\ UNCHANGED <<output, jobs, chan, cap, connected, published, invokedOk>>
    /\ UNCHANGED <<resolveVars, parseVars>>

\* job_watcher.rs:54-68: squeue ran and printed `lines`; each is trimmed and
\* parsed, and the records are collected.  A panic in from_parts ends the thread.
PollOk ==
    /\ pc = "idle"
    /\ polls < MaxPolls
    /\ \E lines \in Outputs :
        /\ output' = lines
        /\ IF parse_panics(lines)
           THEN pc' = "dead" /\ jobs' = <<>>
           ELSE pc' = "publish" /\ jobs' = collect_jobs(lines)
    /\ polls' = polls + 1
    /\ invokedOk' = invokedOk + 1
    /\ UNCHANGED <<chan, cap, connected, published, failures>>
    /\ UNCHANGED <<resolveVars, parseVars>>

\* a send that panics when the channel is full
SendFullIsFatal ==
    /\ pc = "publish"
    /\ IF ~connected \/ ~has_room
       THEN /\ pc' = "dead"
            /\ failures' = failures + 1
            /\ UNCHANGED <<chan, published>>
       ELSE /\ chan' = Append(chan, jobs)
            /\ published' = published + 1
            /\ pc' = "sleep"
            /\ UNCHANGED failures
    /\ UNCHANGED <<polls, output, jobs, cap, connected, invokedOk>>
    /\ UNCHANGED <<resolveVars, parseVars>>

\* job_watcher.rs:69: Sender::send(..).unwrap().  send returns Err when the
\* channel is disconnected (unwrap panics), enqueues when there is room, and
\* otherwise blocks the thread.
Send ==
    /\ pc = "publish"
    /\ IF ~connected
       THEN /\ pc' = "dead"
            /\ failures' = failures + 1
            /\ UNCHANGED <<chan, published>>
       ELSE IF has_room
       THEN /\ chan' = Append(chan, jobs)
            /\ published' = published + 1
            /\ pc' = "sleep"
            /\ UNCHANGED failures
       ELSE /\ pc' = "blocked"
            /\ UNCHANGED <<chan, published, failures>>
    /\ UNCHANGED <<polls, output, jobs, cap, connected, invokedOk>>
    /\ UNCHANGED <<resolveVars, parseVars>>

\* job_watcher.rs:69: a blocked send wakes up when the channel has room or
\* has been disconnected.
SendResume ==
    /\ pc = "blocked"
    /\ ~(connected /\ ~has_room)
    /\ IF ~connected
       THEN /\ pc' = "dead"
            /\ failures' = failures + 1
            /\ UNCHANGED <<chan, published>>
       ELSE /\ chan' = Append(chan, jobs)
            /\ published' = published + 1
            /\ pc' = "sleep"
            /\ UNCHANGED failures
    /\ UNCHANGED <<polls, output, jobs, cap, connected, invokedOk>>
    /\ UNCHANGED <<resolveVars, parseVars>>

\* job_watcher.rs:70-71: thread::sleep, then the next iteration of the loop
Sleep ==
    /\ pc = "sleep"
    /\ pc' = "idle"
    /\ output' = <<>>
    /\ jobs' = <<>>
    /\ UNCHANGED <<polls, chan, cap, connected, published, invokedOk, failures>>
    /\ UNCHANGED <<resolveVars, parseVars>>

\* The consumer takes the oldest message.
Recv ==
    /\ connected
    /\ chan # <<>>
    /\ chan' = Tail(chan)
    /\ UNCHANGED <<pc, polls, output, jobs, cap, connected, published,
                   invokedOk, failures>>
    /\ UNCHANGED <<resolveVars, parseVars>>

\* The consumer drops its Receiver.
Disconnect ==
    /\ connected
    /\ connected' = FALSE
    /\ UNCHANGED <<pc, polls, output, jobs, chan, cap, published, invokedOk,
                   failures>>
    /\ UNCHANGED <<resolveVars, parseVars>>

----------------------------------------------------------------------------
(* Inputs of resolve_path *)

TplTokens ==
    {<<"%", c>> : c \in EscChars} \cup {<<"%">>, <<"o">>, <<"/">>, NullPath}

Templates == {Concat(ts) : ts \in UNION {[1..n -> TplTokens] : n \in 0..MaxTplToks}}

ResolveContexts ==
    {[k \in {ResolveLookups[i] : i \in 1..Len(ResolveLookups)} |->
        CASE k = "ArrayJobID" -> <<"1", "0">>
          [] k = "ArrayTaskID" -> at
          [] k = "jobid" -> <<"5", "5">>
          [] k = "NodeList" -> host
          [] k = "username" -> <<"u">>
          [] k = "name" -> name
          [] k = "WorkDir" -> wd] :
        at \in {NA, <<"2">>},
        host \in {<<"n", "1", ",", "n", "2">>, <<"n", "3">>},
        name \in {<<"f", "o", "o">>, <<"%", "j">>},
        wd \in {<<"/", "w">>, <<"/", "w", "/">>, <<"/", "%", "%">>}}

NotResolved == [ret |-> None, path |-> <<>>]

ResolveInit ==
    /\ rIn \in [template : Templates, ctx : ResolveContexts]
    /\ rOut = [first |-> NotResolved, second |-> NotResolved]
    /\ rStage = 0

ResolveIdle ==
    /\ rIn = <<>>
    /\ rOut = <<>>
    /\ rStage = 0

\* resolve_path(template, ctx)
Resolve ==
    /\ rStage = 0
    /\ rOut' = [rOut EXCEPT !.first = resolve_locals(rIn.template, rIn.ctx)]
    /\ rStage' = 1
    /\ UNCHANGED rIn
    /\ UNCHANGED <<watcherVars, parseVars>>

\* resolve_path applied to the path the first call returned, same context
ResolveAgain ==
    /\ rStage = 1
    /\ rOut.first.ret.some
    /\ rOut' = [rOut EXCEPT !.second = resolve_locals(rOut.first.ret.val, rIn.ctx)]
    /\ rStage' = 2
    /\ UNCHANGED rIn
    /\ UNCHANGED <<watcherVars, parseVars>>

----------------------------------------------------------------------------
(* Inputs of from_parts *)

fields_no_reason ==
    <<"jobid", "name", "state", "username", "timeused", "tres-alloc",
      "partition", "nodelist", "stdout", "stderr", "command", "statecompact",
      "ArrayJobID", "ArrayTaskID", "NodeList", "WorkDir", "tres-per-node">>

FieldLists == {fields, fields_drifted, fields_no_reason, <<"jobid">>, <<>>}

Separators == {output_separator, <<"|">>, <<>>}

ParseValues ==
    {JobValues(jobid, aj, at, <<>>, NA) :
        jobid \in {<<"7">>, <<"8">>, <<"1", "0", "_", "2">>},
        aj \in {<<"7">>, <<"1", "0">>, <<"1", "0", "_", "2">>},
        at \in {NA, <<"2">>, <<"3">>, <<"2", "_", "3">>}}

\* k copies of s
RECURSIVE Repeat(_, _)
Repeat(s, k) == IF k = 0 THEN <<>> ELSE s \o Repeat(s, k - 1)

\* lines squeue prints for the field list and separator, and lines with
\* pieces too many or too few
ParseLines(flds, sep) ==
    LET vm == JobValues(<<"7">>, <<"7">>, NA, <<>>, NA)
        l == MkLine(flds, vm, sep)
    IN  {MkLine(flds, w, sep) : w \in ParseValues}
        \cup {<<>>, <<"x">>, l \o <<"x">>, SubSeq(l, 1, Len(l) - Len(sep))}
        \cup {l \o Repeat(<<"x">> \o sep, k) : k \in 1..MaxExtraPieces}
        \cup {MkLine(SubSeq(flds, 1, Len(flds) - k), vm, sep) :
                 k \in 1..(IF Len(flds) < MaxExtraPieces THEN Len(flds)
                           ELSE MaxExtraPieces)}

NotParsed == [outcome |-> "pending", job |-> NoJob, lookups |-> 0]

ParseInit ==
    /\ \E flds \in FieldLists, sep \in Separators :
         \E la \in ParseLines(flds, sep), lb \in ParseLines(flds, sep) :
            pIn = [fields |-> flds, sep |-> sep, lineA |-> la, lineB |-> lb]
    /\ pOut = [a |-> NotParsed, b |-> NotParsed]
    /\ pStage = 0

ParseIdle ==
    /\ pIn = <<>>
    /\ pOut = <<>>
    /\ pStage = 0

\* Job::from_parts(lineA, fields, sep)
ParseA ==
    /\ pStage = 0
    /\ pOut' = [pOut EXCEPT !.a = from_parts(pIn.lineA, pIn.fields, pIn.sep)]
    /\ pStage' = 1
    /\ UNCHANGED pIn
    /\ UNCHANGED <<watcherVars, resolveVars>>

\* Job::from_parts(lineB, fields, sep)
ParseB ==
    /\ pStage = 1
    /\ pOut' = [pOut EXCEPT !.b = from_parts(pIn.lineB, pIn.fields, pIn.sep)]
    /\ pStage' = 2
    /\ UNCHANGED pIn
    /\ UNCHANGED <<watcherVars, resolveVars>>

----------------------------------------------------------------------------
(* Specifications *)

\* The watcher thread and its consumer.
Init == WatcherInit /\ ResolveIdle /\ ParseIdle

WatcherNext ==
    \/ PollOk
    \/ PollFail
    \/ Send
    \/ SendResume
    \/ Sleep
    \/ Recv
    \/ Disconnect

Next == WatcherNext

Spec == Init /\ [][Next]_vars

\* resolve_path on every bounded template and context.
InitResolve == WatcherIdle /\ ResolveInit /\ ParseIdle

ResolveNext ==
    \/ Resolve
    \/ ResolveAgain

NextResolve == ResolveNext

SpecResolve == InitResolve /\ [][NextResolve]_vars

\* from_parts on pairs of bounded lines, field lists and separators.
InitParse == WatcherIdle /\ ResolveIdle /\ ParseInit

ParseNext ==
    \/ ParseA
    \/ ParseB

NextParse == ParseNext

SpecParse == InitParse /\ [][NextParse]_vars

----------------------------------------------------------------------------
(* Properties of resolve_path, checked under SpecResolve *)

\* '%' followed by one of the eleven placeholder characters occurs in s
HasPlaceholder(s) ==
    \E i \in 1..Len(s) :
        /\ s[i] = "%"
        /\ i < Len(s)
        /\ s[i + 1] \in {"%", "A", "a", "J", "j", "N", "n", "s", "t", "u", "x"}

\* p joined onto dir as a path: an absolute p stands alone
JoinedOnto(dir, p) ==
    IF p # <<>> /\ Head(p) = "/" THEN p
    ELSE IF dir = <<>> \/ dir[Len(dir)] = "/" THEN dir \o p
    ELSE dir \o <<"/">> \o p

\* the file `name` directly under the directory dir
Under(dir, name) ==
    IF dir = <<>> \/ dir[Len(dir)] = "/" THEN dir \o name
    ELSE dir \o <<"/">> \o name

SlurmOut(stem) ==
    <<"s", "l", "u", "r", "m", "-">> \o stem \o <<".", "o", "u", "t">>

\* C1 (as claimed): with an empty template the result is
\* working_dir/slurm-<job_id>.out when array_task_id is "N/A" and
\* working_dir/slurm-<array_job_id>_<array_task_id>.out otherwise, the
\* directory part being the given working_dir, for every context.
C1_EmptyTemplateDefault ==
    (rStage >= 1 /\ rIn.template = <<>>) =>
        LET c == rIn.ctx
            stem == IF c["ArrayTaskID"] = NA THEN c["jobid"]
                    ELSE c["ArrayJobID"] \o <<"_">> \o c["ArrayTaskID"]
        IN  rOut.first.ret = Some(Under(c["WorkDir"], SlurmOut(stem)))

\* C2 (as claimed): every template without a placeholder resolves to the
\* template joined onto working_dir, and resolving that result again with
\* the same context gives the same path.
C2_Original ==
    (rStage >= 1 /\ ~HasPlaceholder(rIn.template)) =>
        /\ rOut.first.ret = Some(JoinedOnto(rIn.ctx["WorkDir"], rIn.template))
        /\ rStage = 2 => rOut.second.ret = rOut.first.ret

\* C2 (amended): a non-empty template other than "(null)" without a
\* placeholder resolves to the template joined onto working_dir; when that
\* result is an absolute path that itself holds no placeholder, resolving it
\* again with the same context gives the same path.
C2_Idempotent ==
    (/\ rStage >= 1
     /\ ~HasPlaceholder(rIn.template)
     /\ rIn.template # <<>>
     /\ rIn.template # NullPath) =>
        /\ rOut.first.ret = Some(JoinedOnto(rIn.ctx["WorkDir"], rIn.template))
        /\ (/\ rStage = 2
            /\ Head(rOut.first.ret.val) = "/"
            /\ ~HasPlaceholder(rOut.first.ret.val)) =>
                rOut.second.ret = rOut.first.ret

\* a template with a lone '%' resolved twice to the same absolute path
C2_Witness ==
    /\ rStage = 2
    /\ rIn.template = <<"%", "o">>
    /\ rIn.ctx["WorkDir"] = <<"/", "w">>
    /\ rOut.first.ret = Some(<<"/", "w", "/", "%", "o">>)
    /\ rOut.second.ret = rOut.first.ret

\* the text before the first comma of s (all of s when it has none)
FirstEntry(s) ==
    LET commas == {i \in 1..Len(s) : s[i] = ","}
    IN  IF commas = {} THEN s ELSE SubSeq(s, 1, Min(commas) - 1)

\* the replacement table of the filename pattern
Expansion(c, ctx) ==
    CASE c = "%" -> <<"%">>
      [] c = "A" -> ctx["ArrayJobID"]
      [] c = "a" -> IF ctx["ArrayTaskID"] = NA THEN slurm_no_val
                    ELSE ctx["ArrayTaskID"]
      [] c \in {"J", "j"} -> ctx["jobid"]
      [] c = "N" -> FirstEntry(ctx["NodeList"])
      [] c \in {"n", "t"} -> <<"0">>
      [] c = "s" -> <<"b", "a", "t", "c", "h">>
      [] c = "u" -> ctx["username"]
      [] c = "x" -> ctx["name"]

\* one left-to-right pass over s: an escape is replaced and skipped, any
\* other character is copied; what is emitted is never read again
RECURSIVE LeftToRight(_, _)
LeftToRight(s, ctx) ==
    IF s = <<>> THEN <<>>
    ELSE IF Len(s) >= 2 /\ s[1] = "%"
            /\ s[2] \in {"%", "A", "a", "J", "j", "N", "n", "s", "t", "u", "x"}
         THEN Expansion(s[2], ctx) \o LeftToRight(SubSeq(s, 3, Len(s)), ctx)
         ELSE <<s[1]>> \o LeftToRight(Tail(s), ctx)

\* C4: for a template that is neither empty nor "(null)", the string
\* resolve_path builds by replacing the collected matches in reverse order
\* equals the one-pass left-to-right expansion of the template, and the
\* result is that string joined onto working_dir.
C4_ReverseEqualsLeftToRight ==
    (rStage >= 1 /\ rIn.template # <<>> /\ rIn.template # NullPath) =>
        /\ rOut.first.path = LeftToRight(rIn.template, rIn.ctx)
        /\ rOut.first.ret =
              Some(JoinedOnto(rIn.ctx["WorkDir"], LeftToRight(rIn.template, rIn.ctx)))

\* two escapes whose replacements are longer than the escapes, the first
\* replacement itself spelling an escape
C4_Witness ==
    /\ rStage >= 1
    /\ rIn.template = <<"%", "x", "%", "j">>
    /\ rIn.ctx["name"] = <<"%", "j">>
    /\ rOut.first.path = <<"%", "j", "5", "5">>

----------------------------------------------------------------------------
(* Properties of from_parts and id, checked under SpecParse *)

\* the two records stand for the same logical work unit
SameUnit(j, k) ==
    \/ /\ ~j.array_step.some
       /\ ~k.array_step.some
       /\ j.job_id = k.job_id
    \/ /\ j.array_step.some
       /\ k.array_step.some
       /\ j.array_id = k.array_id
       /\ j.array_step.val = k.array_step.val

HasUnderscore(s) == \E i \in 1..Len(s) : s[i] = "_"

PlainIds(j) ==
    /\ ~HasUnderscore(j.job_id)
    /\ ~HasUnderscore(j.array_id)
    /\ ~HasUnderscore(j.array_step.val)

\* C3 (as claimed): two records from_parts produced that have equal id()
\* are the same logical work unit.
C3_Original ==
    (/\ pStage = 2
     /\ pOut.a.outcome = "Some"
     /\ pOut.b.outcome = "Some"
     /\ id(pOut.a.job) = id(pOut.b.job)) =>
        SameUnit(pOut.a.job, pOut.b.job)

\* C3 (amended): two records from_parts produced whose job_id, array_id and
\* array_step hold no underscore and that have equal id() are the same
\* logical work unit.
C3_UniqueForPlainIds ==
    (/\ pStage = 2
     /\ pOut.a.outcome = "Some"
     /\ pOut.b.outcome = "Some"
     /\ PlainIds(pOut.a.job)
     /\ PlainIds(pOut.b.job)
     /\ id(pOut.a.job) = id(pOut.b.job)) =>
        SameUnit(pOut.a.job, pOut.b.job)

\* two different lines of one array task, parsed to records with equal id()
C3_Witness ==
    /\ pStage = 2
    /\ pOut.a.outcome = "Some"
    /\ pOut.b.outcome = "Some"
    /\ pIn.lineA # pIn.lineB
    /\ PlainIds(pOut.a.job)
    /\ PlainIds(pOut.b.job)
    /\ pOut.a.job.array_step.some
    /\ id(pOut.a.job) = <<"1", "0", "_", "2">>
    /\ id(pOut.b.job) = <<"1", "0", "_", "2">>

\* the piece of the line at the position of the field `name`
Piece(line, name) ==
    split(line, pIn.sep)[CHOOSE i \in 1..Len(pIn.fields) : pIn.fields[i] = name]

IdAsSpecified(line, r) ==
    r.outcome = "Some" =>
        IF Piece(line, "ArrayTaskID") = NA
        THEN /\ ~r.job.array_step.some
             /\ id(r.job) = Piece(line, "jobid")
        ELSE /\ r.job.array_step = Some(Piece(line, "ArrayTaskID"))
             /\ id(r.job) = Piece(line, "ArrayJobID") \o <<"_">>
                               \o Piece(line, "ArrayTaskID")

\* C8: a parsed record has no array_step and id() equal to the jobid piece
\* when the ArrayTaskID piece is "N/A"; otherwise array_step is the
\* ArrayTaskID piece and id() is ArrayJobID piece, "_", ArrayTaskID piece.
C8_CompositeId ==
    /\ pStage >= 1 => IdAsSpecified(pIn.lineA, pOut.a)
    /\ pStage = 2 => IdAsSpecified(pIn.lineB, pOut.b)

\* a non-array record and an array record, both parsed
C8_Witness ==
    /\ pStage = 2
    /\ pOut.a.outcome = "Some"
    /\ pOut.b.outcome = "Some"
    /\ Piece(pIn.lineA, "ArrayTaskID") = NA
    /\ id(pOut.a.job) = <<"7">>
    /\ Piece(pIn.lineB, "ArrayTaskID") = <<"3">>
    /\ Piece(pIn.lineB, "ArrayJobID") = <<"1", "0">>
    /\ id(pOut.b.job) = <<"1", "0", "_", "3">>

Dropped(line, r) ==
    Len(split(line, pIn.sep)) # Len(pIn.fields) + 1 =>
        /\ r.outcome = "None"
        /\ r.lookups = 0

\* C9: a line whose split yields a number of pieces other than
\* len(fields)+1 makes from_parts return None, without a panic and without
\* any lookup in the table.
C9_MalformedDropped ==
    /\ pStage >= 1 => Dropped(pIn.lineA, pOut.a)
    /\ pStage = 2 => Dropped(pIn.lineB, pOut.b)

\* a line of the 18-field schema with one piece too many and one with one
\* piece too few, both dropped
C9_Witness ==
    /\ pStage = 2
    /\ Len(pIn.fields) = 18
    /\ Len(split(pIn.lineA, pIn.sep)) = 20
    /\ Len(split(pIn.lineB, pIn.sep)) = 18
    /\ pOut.a.outcome = "None"
    /\ pOut.b.outcome = "None"

----------------------------------------------------------------------------
(* Properties of the watcher, checked under Spec *)

Full == cap.bounded /\ Len(chan) >= cap.n

\* C5 (as claimed): a publish that finds the channel full terminates the
\* Watcher, which never goes on to sleep and poll again.
C5_Original ==
    [][/\ (pc = "publish" /\ connected /\ Full /\ pc' # pc) => pc' = "dead"
       /\ pc = "blocked" => pc' # "sleep"]_vars

\* C5 (amended): a publish that finds the channel full blocks the Watcher
\* instead of terminating it; while it waits the message is kept and
\* nothing is added to the channel; it goes on to sleep only by putting
\* that message in the channel once there is room, and terminates only if
\* the consumer has disconnected.
C5_FullBlocks ==
    [][/\ (pc = "publish" /\ connected /\ Full /\ pc' # pc) =>
              /\ pc' = "blocked"
              /\ chan' = chan
              /\ jobs' = jobs
       /\ pc = "blocked" =>
              \/ /\ pc' = "blocked"
                 /\ jobs' = jobs
                 /\ Len(chan') <= Len(chan)
              \/ /\ pc' = "sleep"
                 /\ ~Full
                 /\ chan' = Append(chan, jobs)
              \/ /\ pc' = "dead"
                 /\ ~connected
                 /\ chan' = chan]_vars

\* the second cycle's send is waiting on a full channel
C5_Witness ==
    /\ pc = "blocked"
    /\ connected
    /\ Full
    /\ polls = 2
    /\ published = 1

\* C6: once an invocation has failed or a send has found the channel
\* disconnected the Watcher is terminated, stays terminated, makes no
\* further invocation and publishes nothing more; every cycle but the
\* failed one has published its message and the failed one has not.
C6_FatalNoRetry ==
    /\ [](failures > 0 => pc = "dead")
    /\ [](pc = "dead" => failures = 1 /\ published + 1 = polls)
    /\ [][pc = "dead" =>
            /\ pc' = "dead"
            /\ polls' = polls
            /\ published' = published
            /\ Len(chan') <= Len(chan)]_vars

\* the second invocation failed after the first cycle had published
C6_Witness ==
    /\ pc = "dead"
    /\ failures = 1
    /\ polls = 2
    /\ invokedOk = 1
    /\ published = 1

\* the records of the lines the Record Parser accepts, in the order of the
\* lines
Accepted(lines) ==
    LET res(i) == ParseTable[lines[i]]
        acc == {i \in 1..Len(lines) : res(i).outcome = "Some"}
        nth(k) == CHOOSE i \in acc : Cardinality({j \in acc : j <= i}) = k
    IN  [k \in 1..Cardinality(acc) |-> res(nth(k)).job]

\* C7 (as claimed): every poll cycle whose invocation succeeded has
\* published exactly one message by the time the cycle is over.
C7_Original ==
    pc \in {"sleep", "idle", "dead"} => published = invokedOk

\* C7 (amended): every poll cycle whose invocation succeeds and whose send
\* does not find the consumer disconnected publishes exactly one message,
\* after the invocation and before the sleep; the message is the list of
\* the records of the accepted lines of that cycle's output, in line order,
\* and nothing else; rejected lines are left out and the loop goes on.
C7_OneOrderedSnapshot ==
    [][/\ published' # published =>
              /\ published' = published + 1
              /\ pc \in {"publish", "blocked"}
              /\ pc' = "sleep"
              /\ chan' = Append(chan, Accepted(output))
       /\ (pc' = "sleep" /\ pc # "sleep") => published' = invokedOk'
       /\ (pc' = "publish" /\ pc # "publish") =>
              /\ published' + 1 = invokedOk'
              /\ jobs' = Accepted(output')
       /\ pc = "sleep" => pc' \in {"sleep", "idle"}]_vars

\* the second cycle published the two records of its output in line order
\* and the loop has reached the sleep
C7_Witness ==
    /\ pc = "sleep"
    /\ published = 2
    /\ output = <<LineArray, LinePlain>>
    /\ Len(jobs) = 2
    /\ jobs[1].job_id = <<"8">>
    /\ jobs[2].job_id = <<"7">>

\* the names from_parts and resolve_path unwrap
UnwrappedNames ==
    {"jobid", "ArrayJobID", "ArrayTaskID", "name", "state", "statecompact",
     "username", "timeused", "tres-alloc", "tres-per-node", "partition",
     "NodeList", "command", "stdout", "stderr", "WorkDir"}

\* a record for a trimmed line of 19 pieces, None for any other line
ExpectedOutcome ==
    [l \in WatcherLines |->
        IF Len(split(trim(l), output_separator)) = 19 THEN "Some" ELSE "None"]

\* C10: with the Watcher's 18 field names and its separator every unwrapped
\* name is a key of the table, so parsing a line of the output gives a
\* record when the line has 19 pieces and None otherwise, and the Watcher
\* never dies of a panic in the parser.
C10_NoSchemaDrift ==
    /\ Len(fields) = 18
    /\ UnwrappedNames \subseteq {fields[i] : i \in 1..Len(fields)}
    /\ \A i \in 1..Len(output) :
          ParseTable[output[i]].outcome = ExpectedOutcome[output[i]]
    /\ pc = "dead" => failures > 0

\* an output with a short line and a well-formed line, parsed to one record
C10_Witness ==
    /\ pc = "publish"
    /\ output = <<LineShort, LinePlain>>
    /\ Len(jobs) = 1
    /\ jobs[1].job_id = <<"7">>

=============================================================================
